---- MODULE Spec2Model ----
(***************************************************************************)
(* A model of the mixins of ML_mixins: the interval recorder               *)
(* (src/src/mixins/timeable.py, TimeableMixin), the swap cache             *)
(* (src/mixins/swapcacheable.py, SwapcacheableMixin), the memory recorder  *)
(* (src/src/mixins/memtrackable.py, MemTrackableMixin), the formatter of   *)
(* their statistics (src/src/mixins/utils.py), the seeder                  *)
(* (src/src/mixins/seedable.py, SeedableMixin) and the saver               *)
(* (src/mixins/saveable.py, SaveableMixin).                                *)
(*                                                                         *)
(* Every operation of a mixin is one action; the handlers themselves are   *)
(* operators over the host's state so that a handler that calls another    *)
(* (update calls activate, a scope's exit calls _register_end) is modelled *)
(* by the composition the code performs.  A raised exception is the "exc"  *)
(* of a handler's result, together with the state at the raise.            *)
(***************************************************************************)
EXTENDS Integers, Sequences, FiniteSets, TLC

\* ------------------------------------------------------------------ bounds
MaxTime == 1        \* the clock reads 0..MaxTime
MaxAttempts == 2    \* attempts recorded, over all keys
MaxDepth == 2       \* nesting depth of timing scopes
MaxCacheSize == 2   \* the cache_size a host is constructed with is 0..MaxCacheSize
MaxInserts == 3     \* keys inserted into the swap cache over a host's life
MaxSamples == 3     \* attempts (tracked blocks) of a host whose statistics are taken
MaxSeed == 2        \* a seed drawn by _seed is in 0..MaxSeed
MaxPastSeeds == 3   \* entries of a host's seed history
MaxDraws == 1       \* draws of a generator since it was last seeded

\* cache_size when the constructor is given none
DefaultCacheSize == 5

\* Python's None, and the label of a handler that returned normally.
None == "None"
Ok == "ok"

\* Keys timed directly and through _time_as.
TKeys == {"k1", "fn"}

\* Methods decorated with TimeAs: the method's __name__ and the key given to
\* the decorator (None for the bare @TimeAs form).
Decorated == {[name |-> "fn", key |-> None], [name |-> "fn", key |-> "k1"]}

\* Keys of the swap cache (any hashable, None among them), the attribute
\* names a bundle may hold and their values.
CKeys == {None, "a", "b", "c"}
AttrNames == {"x", "y"}
Values == {1, 2}
ValuesOf(a) == IF a = "x" THEN Values ELSE {1}

VARIABLES
    now,         \* time.time()
    hasTimings,  \* hasattr(self, "_timings")
    timings,     \* self._timings: key -> list of {start[, end]}
    stack,       \* the timing scopes entered and not yet exited, innermost last
    call,        \* the last call made on the host: what, with which key, how it ended
    host,        \* the mixin the host composes and what it was constructed from
    lastEv,      \* history: per key, the last successful begin/end
    ended,       \* history: per key, the duration noted at each successful end
    cacheSize,   \* self._cache_size
    swap,        \* the swap cache's attributes on the host, and the host's own
    prevFront,   \* history: _front_cache_key before the last swap-cache call
    inserted,    \* history: the keys appended to the cache, in order
    given        \* history: the values_dict of the last update call

tvars == <<hasTimings, timings, stack, lastEv, ended>>
cvars == <<cacheSize, swap, prevFront, inserted, given>>
vars == <<now, call, host, tvars, cvars>>

Label(op, key, exc, idx, ret) ==
    [op |-> op, key |-> key, exc |-> exc, idx |-> idx, ret |-> ret]

\* ------------------------------------------------------- TimeableMixin
Last(s) == s[Len(s)]
Range(s) == {s[i] : i \in 1..Len(s)}

\* The attempts recorded so far, over all keys.
Recorded(tm) ==
    LET Sum[S \in SUBSET DOMAIN tm] ==
            IF S = {} THEN 0
            ELSE LET k == CHOOSE x \in S : TRUE IN Len(tm[k]) + Sum[S \ {k}]
    IN Sum[DOMAIN tm]

\* self._timings[key] of a defaultdict(list), read without inserting.
Attempts(tm, key) == IF key \in DOMAIN tm THEN tm[key] ELSE <<>>

IsOpen(t) == "start" \in DOMAIN t /\ "end" \notin DOMAIN t

\* __assert_key_exists
KeyExists(has, tm, key) == has /\ key \in DOMAIN tm

\* _times_for without its filter: an open attempt is listed as 0.
TimesFor_ListsOpen(tm, key) ==
    [i \in 1..Len(tm[key]) |->
        IF "end" \in DOMAIN tm[key][i] THEN tm[key][i].end - tm[key][i].start ELSE 0]

\* _times_for, past its assertion
TimesFor(tm, key) ==
    LET F[i \in 0..Len(tm[key])] ==
            IF i = 0 THEN <<>>
            ELSE LET t == tm[key][i]
                 IN IF "start" \in DOMAIN t /\ "end" \in DOMAIN t
                    THEN Append(F[i - 1], t.end - t.start)
                    ELSE F[i - 1]
    IN F[Len(tm[key])]

\* _register_start: the attempt appended to the key's list (created when absent)
RegisterStart(tm, key, t) ==
    [k \in DOMAIN tm \cup {key} |->
        IF k = key THEN Append(Attempts(tm, key), [start |-> t]) ELSE tm[k]]

\* _register_end without its third assertion: a closed attempt is ended again.
RegisterEndOk_NoOpenCheck(has, tm, key) ==
    /\ has
    /\ key \in DOMAIN tm /\ Len(tm[key]) > 0

\* The three assertions of _register_end.
RegisterEndOk(has, tm, key) ==
    /\ has
    /\ key \in DOMAIN tm /\ Len(tm[key]) > 0
    /\ "end" \notin DOMAIN Last(tm[key])

\* _register_end, past its assertions
RegisterEnd(tm, key, t) ==
    [tm EXCEPT ![key][Len(tm[key])] = [start |-> @.start, end |-> t]]

\* _time_so_far without its second assertion: a closed attempt is measured.
TimeSoFarOk_NoOpenCheck(has, tm, key) == KeyExists(has, tm, key)

\* The two assertions of _time_so_far.
TimeSoFarOk(has, tm, key) ==
    /\ KeyExists(has, tm, key)
    /\ "end" \notin DOMAIN Last(tm[key])

\* _time_so_far, past its assertions
TimeSoFar(tm, key, t) == t - Last(tm[key]).start

\* TimeAs: the key a decorated method is timed under
DecoratedKey(d) == IF d.key = None THEN d.name ELSE d.key

\* -------------------------------------------------- SwapcacheableMixin
\* An attribute bundle, and the host's own dynamic attributes: a dict.
Dicts ==
    UNION {{d \in [S -> Values] : \A a \in S : d[a] \in ValuesOf(a)} : S \in SUBSET AttrNames}

\* dict.update
DictUpdate(d, u) ==
    [a \in DOMAIN d \cup DOMAIN u |-> IF a \in DOMAIN u THEN u[a] ELSE d[a]]

\* An index is None (no index) or an int, held as <<>> or <<i>>.
NoIdx == <<>>

\* The 1-based place of Python's lst[i] in a list of length n, 0 when out of range.
PyIndex(n, i) ==
    IF i < 0 THEN (IF n + i + 1 >= 1 THEN n + i + 1 ELSE 0)
    ELSE (IF i + 1 <= n THEN i + 1 ELSE 0)

\* lst[:n] in place of lst[-n:]: the oldest n entries are kept.
LastSlice_KeepsFirst(lst, n) ==
    IF n >= Len(lst) THEN lst ELSE SubSeq(lst, 1, n)

\* Python's lst[-n:] for n >= 0: the whole list when n is 0 (-0 is 0).
LastSlice(lst, n) ==
    IF n = 0 \/ n >= Len(lst) THEN lst
    ELSE SubSeq(lst, Len(lst) - n + 1, Len(lst))

\* _init_attrs: the attributes it gives a host that lacks them. A host is
\* modelled from the first _init_attrs on; every handler starts with it and
\* it changes nothing afterwards.
InitAttrs ==
    [keys |-> <<>>, values |-> <<>>, front_attrs |-> <<>>,
     front_cache_key |-> None, front_cache_idx |-> NoIdx,
     attrs |-> <<>>]

Result(st, exc) == [st |-> st, exc |-> exc]

\* _swapcache_has_key
SwapcacheHasKey(c, key) == \E i \in 1..Len(c.keys) : c.keys[i][1] = key

\* for attr in self._front_attrs: delattr(self, attr)
DelFrontAttrs(c) ==
    LET F[i \in 0..Len(c.front_attrs)] ==
            IF i = 0 THEN Result(c.attrs, Ok)
            ELSE IF F[i - 1].exc # Ok THEN F[i - 1]
            ELSE IF c.front_attrs[i] \notin DOMAIN F[i - 1].st
                 THEN Result(F[i - 1].st, "AttributeError")
            ELSE Result([a \in DOMAIN F[i - 1].st \ {c.front_attrs[i]} |-> F[i - 1].st[a]], Ok)
        r == F[Len(c.front_attrs)]
    IN Result([c EXCEPT !.attrs = r.st], r.exc)

\* _update_front_attrs: setattr of every item of the front bundle
UpdateFrontAttrs(c) ==
    IF c.front_cache_idx = NoIdx THEN Result(c, "TypeError")
    ELSE LET i == PyIndex(Len(c.values), c.front_cache_idx[1]) IN
         IF i = 0 THEN Result(c, "IndexError")
         ELSE Result([c EXCEPT !.attrs = DictUpdate(c.attrs, c.values[i])], Ok)

\* _set_swapcache_key without its early return for the front key.
SetSwapcacheKey_NoEarlyReturn(c, key, n, t) ==
    IF SwapcacheHasKey(c, key) THEN Result(c, "AttributeError")
    ELSE LET c1 == [c EXCEPT !.keys = LastSlice(Append(c.keys, <<key, t>>), n),
                             !.values = LastSlice(Append(c.values, <<>>), n)]
             r2 == DelFrontAttrs(c1)
         IN IF r2.exc # Ok THEN r2
            ELSE UpdateFrontAttrs([r2.st EXCEPT !.front_cache_key = key,
                                                !.front_cache_idx = <<-1>>])

\* _set_swapcache_key. The index of a seen key is looked up in
\* self._seen_parameters, an attribute nothing in the mixin sets: the lookup
\* raises AttributeError.
SetSwapcacheKey(c, key, n, t) ==
    IF key = c.front_cache_key THEN Result(c, Ok)
    ELSE IF SwapcacheHasKey(c, key) THEN Result(c, "AttributeError")
    ELSE LET c1 == [c EXCEPT !.keys = LastSlice(Append(c.keys, <<key, t>>), n),
                             !.values = LastSlice(Append(c.values, <<>>), n)]
             r2 == DelFrontAttrs(c1)
         IN IF r2.exc # Ok THEN r2
            ELSE UpdateFrontAttrs([r2.st EXCEPT !.front_cache_key = key,
                                                !.front_cache_idx = <<-1>>])

\* _swap_to_key with its assertion after the activation instead of before it.
SwapToKey_AssertsAfter(c, key, n, t) ==
    LET r == SetSwapcacheKey(c, key, n, t) IN
    IF ~SwapcacheHasKey(c, key) THEN Result(r.st, "AssertionError") ELSE r

\* _swap_to_key
SwapToKey(c, key, n, t) ==
    IF ~SwapcacheHasKey(c, key) THEN Result(c, "AssertionError")
    ELSE SetSwapcacheKey(c, key, n, t)

\* _update_swapcache_key_and_swap
UpdateSwapcacheKeyAndSwap(c, key, values_dict, n, t) ==
    IF key = None THEN Result(c, "AssertionError")
    ELSE LET r1 == SetSwapcacheKey(c, key, n, t) IN
         IF r1.exc # Ok THEN r1
         ELSE IF r1.st.front_cache_idx = NoIdx THEN Result(r1.st, "TypeError")
         ELSE LET i == PyIndex(Len(r1.st.values), r1.st.front_cache_idx[1]) IN
              IF i = 0 THEN Result(r1.st, "IndexError")
              ELSE UpdateFrontAttrs(
                       [r1.st EXCEPT !.values[i] = DictUpdate(@, values_dict)])

\* _update_current_swapcache_key
UpdateCurrentSwapcacheKey(c, values_dict, n, t) ==
    UpdateSwapcacheKeyAndSwap(c, c.front_cache_key, values_dict, n, t)

KeyNames(c) == [i \in 1..Len(c.keys) |-> c.keys[i][1]]

\* The bundle cached for a key.
Bundle(c, key) ==
    c.values[CHOOSE i \in 1..Len(c.keys) : c.keys[i][1] = key]

\* ------------------------------------------------------------- history
NoteStart(key) ==
    /\ lastEv' = [lastEv EXCEPT ![key] = "begin"]
    /\ UNCHANGED ended

NoteEnd(key) ==
    /\ lastEv' = [lastEv EXCEPT ![key] = "end"]
    /\ ended' = [ended EXCEPT ![key] = Append(@, now - Last(timings[key]).start)]

\* ------------------------------------------------------------- actions
\* A host that composes TimeableMixin: TimeableMixin(), or a subclass whose
\* __init__ does not call it and so starts without _timings.
InitTimeable ==
    /\ hasTimings \in BOOLEAN
    /\ timings = <<>>
    /\ stack = <<>>
    /\ lastEv = [k \in TKeys |-> "none"]
    /\ ended = [k \in TKeys |-> <<>>]

\* A host that composes SwapcacheableMixin, constructed with cache_size = n.
InitSwapcacheable(n) ==
    /\ cacheSize = n
    /\ swap = InitAttrs
    /\ prevFront = None
    /\ inserted = <<>>
    /\ given = <<>>

Init ==
    /\ host = [mixin |-> "TimeableMixin"]
    /\ now = 0
    /\ call = Label("init", None, Ok, 0, <<>>)
    /\ InitTimeable
    /\ InitSwapcacheable(DefaultCacheSize)

InitCache ==
    /\ host = [mixin |-> "SwapcacheableMixin"]
    /\ now = 0
    /\ call = Label("init", None, Ok, 0, <<>>)
    /\ InitTimeable /\ hasTimings
    /\ \E n \in 0..MaxCacheSize : InitSwapcacheable(n)

Tick ==
    /\ now < MaxTime
    /\ now' = now + 1
    /\ call' = Label("tick", None, Ok, 0, <<>>)
    /\ UNCHANGED <<host, tvars, cvars>>

\* self._register_start(key)
Begin(key) ==
    /\ Recorded(timings) < MaxAttempts
    /\ hasTimings' = TRUE
    /\ timings' = RegisterStart(timings, key, now)
    /\ NoteStart(key)
    /\ call' = Label("begin", key, Ok, Len(timings'[key]), <<>>)
    /\ UNCHANGED <<host, now, stack, cvars>>

\* self._register_end(key)
End(key) ==
    /\ IF RegisterEndOk(hasTimings, timings, key)
       THEN /\ timings' = RegisterEnd(timings, key, now)
            /\ NoteEnd(key)
            /\ call' = Label("end", key, Ok, Len(timings[key]), <<>>)
       ELSE /\ call' = Label("end", key, "AssertionError", 0, <<>>)
            /\ UNCHANGED <<timings, lastEv, ended>>
    /\ UNCHANGED <<host, now, hasTimings, stack, cvars>>

\* self._times_for(key)
QueryTimesFor(key) ==
    /\ call' = IF KeyExists(hasTimings, timings, key)
               THEN Label("times_for", key, Ok, 0, TimesFor(timings, key))
               ELSE Label("times_for", key, "AssertionError", 0, <<>>)
    /\ UNCHANGED <<host, now, tvars, cvars>>

\* self._time_so_far(key)
QueryTimeSoFar(key) ==
    /\ call' = IF TimeSoFarOk(hasTimings, timings, key)
               THEN Label("time_so_far", key, Ok, 0, TimeSoFar(timings, key, now))
               ELSE Label("time_so_far", key, "AssertionError", 0, <<>>)
    /\ UNCHANGED <<host, now, tvars, cvars>>

\* with self._time_as(key): the block is entered
EnterTimeAs(key) ==
    /\ Len(stack) < MaxDepth
    /\ Recorded(timings) < MaxAttempts
    /\ hasTimings' = TRUE
    /\ timings' = RegisterStart(timings, key, now)
    /\ NoteStart(key)
    /\ stack' = Append(stack, [kind |-> "time_as", key |-> key, idx |-> Len(timings'[key])])
    /\ call' = Label("enter_time_as", key, Ok, Len(timings'[key]), <<>>)
    /\ UNCHANGED <<host, now, cvars>>

\* The block of a _time_as scope is left, normally (raised = None) or by the
\* exception `raised`: the finally clause runs _register_end, whose own
\* AssertionError replaces whatever was propagating.
ExitTimeAs(raised) ==
    /\ stack # <<>>
    /\ Last(stack).kind = "time_as"
    /\ LET f == Last(stack) IN
       /\ stack' = SubSeq(stack, 1, Len(stack) - 1)
       /\ IF RegisterEndOk(hasTimings, timings, f.key)
          THEN /\ timings' = RegisterEnd(timings, f.key, now)
               /\ NoteEnd(f.key)
               /\ call' = Label("exit_time_as", f.key,
                                IF raised = None THEN Ok ELSE raised, f.idx, raised)
          ELSE /\ call' = Label("exit_time_as", f.key, "AssertionError", f.idx, raised)
               /\ UNCHANGED <<timings, lastEv, ended>>
    /\ UNCHANGED <<host, now, hasTimings, cvars>>

\* A TimeAs-decorated method is called: wrapper_timing runs _register_start
\* and enters fn.
CallDecorated(d) ==
    /\ Len(stack) < MaxDepth
    /\ Recorded(timings) < MaxAttempts
    /\ LET key == DecoratedKey(d) IN
       /\ hasTimings' = TRUE
       /\ timings' = RegisterStart(timings, key, now)
       /\ NoteStart(key)
       /\ stack' = Append(stack, [kind |-> "TimeAs", key |-> key, idx |-> Len(timings'[key])])
       /\ call' = Label("call_decorated", key, Ok, Len(timings'[key]), <<>>)
    /\ UNCHANGED <<host, now, cvars>>

\* fn returns: wrapper_timing runs _register_end and returns fn's result.
ReturnDecorated ==
    /\ stack # <<>>
    /\ Last(stack).kind = "TimeAs"
    /\ LET f == Last(stack) IN
       /\ stack' = SubSeq(stack, 1, Len(stack) - 1)
       /\ IF RegisterEndOk(hasTimings, timings, f.key)
          THEN /\ timings' = RegisterEnd(timings, f.key, now)
               /\ NoteEnd(f.key)
               /\ call' = Label("exit_decorated", f.key, Ok, f.idx, None)
          ELSE /\ call' = Label("exit_decorated", f.key, "AssertionError", f.idx, None)
               /\ UNCHANGED <<timings, lastEv, ended>>
    /\ UNCHANGED <<host, now, hasTimings, cvars>>

\* fn raises: wrapper_timing has no handler, the exception leaves it at the
\* call of fn and _register_end is not reached.
RaiseDecorated ==
    /\ stack # <<>>
    /\ Last(stack).kind = "TimeAs"
    /\ LET f == Last(stack) IN
       /\ stack' = SubSeq(stack, 1, Len(stack) - 1)
       /\ call' = Label("exit_decorated", f.key, "WorkError", f.idx, "WorkError")
    /\ UNCHANGED <<host, now, hasTimings, timings, lastEv, ended, cvars>>

NextTime ==
    \/ Tick
    \/ \E key \in TKeys : Begin(key)
    \/ \E key \in TKeys : End(key)
    \/ \E key \in TKeys : QueryTimesFor(key)
    \/ \E key \in TKeys : QueryTimeSoFar(key)
    \/ \E key \in TKeys : EnterTimeAs(key)
    \/ \E raised \in {None, "WorkError"} : ExitTimeAs(raised)
    \/ \E d \in Decorated : CallDecorated(d)
    \/ ReturnDecorated
    \/ RaiseDecorated

SpecTime == Init /\ [][NextTime]_vars

\* ----------------------------------------------------- swap-cache actions
\* A swap-cache call that ended as r, having appended `key` to the cache
\* when `appends`, and given `values_dict` (empty for the calls that take none).
Called(op, key, r, ret, appends, values_dict) ==
    /\ swap' = r.st
    /\ given' = values_dict
    /\ prevFront' = swap.front_cache_key
    /\ inserted' = IF appends THEN Append(inserted, key) ELSE inserted
    /\ call' = Label(op, key, r.exc, 0, ret)
    /\ UNCHANGED <<host, now, cacheSize, tvars>>

\* The call activates a key that is neither the front key nor cached.
Unseen(key) == key # swap.front_cache_key /\ ~SwapcacheHasKey(swap, key)

\* self._set_swapcache_key(key)
Activate(key) ==
    /\ Len(inserted) < MaxInserts
    /\ Called("activate", key, SetSwapcacheKey(swap, key, cacheSize, now), None,
              Unseen(key), <<>>)

\* self._swap_to_key(key)
SwapTo(key) ==
    Called("swap_to", key, SwapToKey(swap, key, cacheSize, now), None, FALSE, <<>>)

\* self._update_swapcache_key_and_swap(key, values_dict)
Update(key, values_dict) ==
    /\ Len(inserted) < MaxInserts
    /\ Called("update", key,
              UpdateSwapcacheKeyAndSwap(swap, key, values_dict, cacheSize, now), None,
              key # None /\ Unseen(key), values_dict)

\* self._update_current_swapcache_key(values_dict)
UpdateCurrent(values_dict) ==
    Called("update_current", swap.front_cache_key,
           UpdateCurrentSwapcacheKey(swap, values_dict, cacheSize, now), None, FALSE,
           values_dict)

\* self._swapcache_has_key(key)
HasKey(key) ==
    Called("has_key", key, Result(swap, Ok), SwapcacheHasKey(swap, key), FALSE, <<>>)

NextCache ==
    \/ \E key \in CKeys : Activate(key)
    \/ \E key \in CKeys : SwapTo(key)
    \/ \E key \in CKeys, d \in Dicts : Update(key, d)
    \/ \E d \in Dicts : UpdateCurrent(d)
    \/ \E key \in CKeys : HasKey(key)

\* The insertion time of a key is stored and never read: the clock is left
\* alone here.
SpecCache == InitCache /\ [][NextCache]_vars

\* Timing scopes alone: a host driven only through _time_as blocks and
\* TimeAs-decorated calls whose work returns, nested as the bounds allow.
NextScopes ==
    \/ Tick
    \/ \E key \in TKeys : EnterTimeAs(key)
    \/ ExitTimeAs(None)
    \/ \E d \in Decorated : CallDecorated(d)
    \/ ReturnDecorated

SpecScopes == Init /\ [][NextScopes]_vars

\* ------------------------------------------------------------ numbers
\* A float is held as the quotient num/den of two integers, den > 0; 0/0 is
\* NaN, which no comparison holds for and which every operation passes on.
RECURSIVE GCD(_, _)
GCD(a, b) == IF b = 0 THEN a ELSE GCD(b, a % b)

\* n/d in lowest terms. (A float rounds; the quotient here is exact.)
Frac(n, d) ==
    IF d = 0 THEN [num |-> 0, den |-> 0]
    ELSE LET g == GCD(IF n < 0 THEN -n ELSE n, d)
         IN [num |-> n \div g, den |-> d \div g]

NaN == Frac(0, 0)
IsNaN(a) == a.den = 0
Lt(a, b) == ~IsNaN(a) /\ ~IsNaN(b) /\ a.num * b.den < b.num * a.den
Times(a, n) == IF IsNaN(a) THEN NaN ELSE Frac(a.num * n, a.den)
Over(a, n) == IF IsNaN(a) THEN NaN ELSE Frac(a.num, a.den * n)
Mul(a, b) == IF IsNaN(a) \/ IsNaN(b) THEN NaN ELSE Frac(a.num * b.num, a.den * b.den)

\* a / b of numpy floats; 0/0 is NaN. (x/0 with x # 0 does not arise: a mean
\* of 0 goes with a deviation of 0, which is not scaled.)
Div(a, b) ==
    IF IsNaN(a) \/ IsNaN(b) \/ b.num = 0 THEN NaN
    ELSE Frac(a.num * b.den, a.den * b.num)

\* The square root of a float, held by its square.
Sqrt(v) == [sqrt |-> v]

\* A float or None is held as <<x>> or <<>>.
NoFloat == <<>>

RECURSIVE SumOf(_)
SumOf(arr) == IF arr = <<>> THEN 0 ELSE arr[1] + SumOf(Tail(arr))

RECURSIVE SumOfSquares(_)
SumOfSquares(arr) == IF arr = <<>> THEN 0 ELSE arr[1] * arr[1] + SumOfSquares(Tail(arr))

\* numpy's arr.mean(): NaN (and a warning) for an empty array.
Mean(arr) == IF arr = <<>> THEN NaN ELSE Frac(SumOf(arr), Len(arr))

\* arr.std() as the sample standard deviation (dividing by n - 1).
Std_Sample(arr) ==
    IF arr = <<>> THEN Sqrt(NaN)
    ELSE Sqrt(Frac(Len(arr) * SumOfSquares(arr) - SumOf(arr) * SumOf(arr),
                   Len(arr) * (Len(arr) - 1)))

\* numpy's arr.std(): the population standard deviation, sqrt(mean((x - mean)^2)).
Std(arr) ==
    IF arr = <<>> THEN Sqrt(NaN)
    ELSE Sqrt(Frac(Len(arr) * SumOfSquares(arr) - SumOf(arr) * SumOf(arr),
                   Len(arr) * Len(arr)))

\* bool(x) of a float or None: None and 0.0 are false, NaN is true.
Truthy(x) == x # NoFloat /\ (IsNaN(x[1].sqrt) \/ x[1].sqrt.num # 0)

\* ------------------------------------------------------------ list.sort
\* CPython's binarysort step: the place of pivot in srt[l..r-1], after the
\* items it is not less than.
RECURSIVE BinarySearch(_, _, _, _, _)
BinarySearch(srt, kf, pivot, l, r) ==
    IF l >= r THEN l
    ELSE LET p == l + ((r - l) \div 2) IN
         IF Lt(kf[pivot], kf[srt[p]]) THEN BinarySearch(srt, kf, pivot, l, p)
         ELSE BinarySearch(srt, kf, pivot, p + 1, r)

Reverse(s) == [i \in 1..Len(s) |-> s[Len(s) + 1 - i]]

\* sorted(s, key=kf) with the items listed in place of insertion: no sort.
PySorted_Unsorted(s, kf) == s

\* sorted(s, key=kf) as CPython sorts a list of fewer than 64 items:
\* count_run finds the run the list starts with (reversed when strictly
\* descending), binarysort inserts the rest. With keys that `<` orders it is
\* the stable ascending order; with a NaN key it is what these steps leave.
PySorted(s, kf) ==
    LET n == Len(s)
        lt(a, b) == Lt(kf[a], kf[b])
        desc == n >= 2 /\ lt(s[2], s[1])
        Ext(j) == IF desc THEN lt(s[j], s[j - 1]) ELSE ~lt(s[j], s[j - 1])
        run == IF n <= 1 THEN n
               ELSE CHOOSE r \in 2..n :
                        /\ \A j \in 3..r : Ext(j)
                        /\ r = n \/ ~Ext(r + 1)
        first == IF desc THEN Reverse(SubSeq(s, 1, run)) ELSE SubSeq(s, 1, run)
        Ins[i \in run..n] ==
            IF i = run THEN first
            ELSE LET srt == Ins[i - 1]
                     at == BinarySearch(srt, kf, s[i], 1, i)
                 IN SubSeq(srt, 1, at - 1) \o <<s[i]>> \o SubSeq(srt, at, i - 1)
    IN Ins[n]

\* [x for x in s if x in keep]
Filter(s, keep) ==
    LET F[i \in 0..Len(s)] ==
            IF i = 0 THEN <<>>
            ELSE IF s[i] \in keep THEN Append(F[i - 1], s[i]) ELSE F[i - 1]
    IN F[Len(s)]

\* max(len(k) for k in keys), keys not empty
LongestKeyLength(keys) ==
    CHOOSE m \in {Len(keys[i]) : i \in 1..Len(keys)} :
        \A i \in 1..Len(keys) : Len(keys[i]) <= m

\* A call's outcome: what it raised and what it returned.
Outcome(exc, ret) == [exc |-> exc, ret |-> ret]

\* ------------------------------------------------- units and formatting
\* A unit table: entries (factor, unit), smallest unit first; the factor of
\* an entry is None or a number, held as <<>> or <<f>>.
Entry(fac, unit) == [fac |-> fac, unit |-> unit]

\* TimeableMixin._CUTOFFS_AND_UNITS ("us" for the table's micro sign)
TimeCutoffsAndUnits ==
    <<Entry(<<1000>>, "us"), Entry(<<1000>>, "ms"), Entry(<<60>>, "sec"),
      Entry(<<60>>, "min"), Entry(<<24>>, "hour"), Entry(<<7>>, "days"),
      Entry(<<>>, "weeks")>>

\* The first loop of normalize_unit, of _get_pprint_num_unit and of
\* pprint_stats_map's total_val, from entry i on: the product of the factors
\* below x_unit. The loop ends at x_unit, raises at a factor of None, and
\* ends without either when the table runs out.
RECURSIVE UnitFactor(_, _, _, _)
UnitFactor(table, x_unit, i, factor) ==
    IF i > Len(table) THEN Outcome(Ok, factor)
    ELSE IF table[i].unit = x_unit THEN Outcome(Ok, factor)
    ELSE IF table[i].fac = <<>> THEN Outcome("LookupError", <<>>)
    ELSE UnitFactor(table, x_unit, i + 1, factor * table[i].fac[1])

\* The second loop of normalize_unit and of _get_pprint_num_unit, from entry
\* i on: the first unit whose factor is None or whose upper bound exceeds
\* min_unit; None (<<>>) is returned when the table runs out. (NaN over any
\* bound is NaN: the bound is left alone then.)
RECURSIVE LargestUnit(_, _, _, _)
LargestUnit(table, min_unit, i, upper_bound) ==
    IF i > Len(table) THEN Outcome(Ok, <<>>)
    ELSE IF \/ table[i].fac = <<>>
            \/ Lt(min_unit, Frac(upper_bound * table[i].fac[1], 1))
         THEN Outcome(Ok, <<Over(min_unit, upper_bound), table[i].unit>>)
    ELSE LargestUnit(table, min_unit, i + 1,
                     IF IsNaN(min_unit) THEN upper_bound
                     ELSE upper_bound * table[i].fac[1])

\* utils.normalize_unit(val, cutoffs_and_units), val = (x, x_unit)
NormalizeUnit(val, cutoffs_and_units) ==
    LET f == UnitFactor(cutoffs_and_units, val[2], 1, 1) IN
    IF f.exc # Ok THEN f
    ELSE LargestUnit(cutoffs_and_units, Times(val[1], f.ret), 1, 1)

\* cls._get_pprint_num_unit(x, x_unit) of a class whose _CUTOFFS_AND_UNITS is
\* `table`
GetPprintNumUnit(table, x, x_unit) ==
    LET f == UnitFactor(table, x_unit, 1, 1) IN
    IF f.exc # Ok THEN f
    ELSE LargestUnit(table, Times(x, f.ret), 1, 1)

\* What a formatted quantity shows: the mean and the deviation (each printed
\* with one decimal), the unit and the " (xN)" suffix.
Quantity(mean, std, unit, n_times) ==
    [mean |-> mean, std |-> std, unit |-> unit,
     times |-> IF n_times > 1 THEN <<n_times>> ELSE <<>>]

\* _pprint_duration with pprint_quant's test of the deviation
\* (`is not None` in place of its truth value).
PprintDuration_ShowsGivenStd(table, mean_sec, n_times, std_seconds) ==
    LET r == GetPprintNumUnit(table, mean_sec, "sec") IN
    IF r.exc # Ok THEN r
    ELSE IF r.ret = <<>> THEN Outcome("TypeError", <<>>)
    ELSE Outcome(Ok,
            Quantity(r.ret[1],
                     IF std_seconds # NoFloat
                     THEN <<Sqrt(Mul(std_seconds[1].sqrt,
                                     Mul(Div(r.ret[1], mean_sec), Div(r.ret[1], mean_sec))))>>
                     ELSE NoFloat,
                     r.ret[2], n_times))

\* cls._pprint_duration(mean_sec, n_times, std_seconds)
PprintDuration(table, mean_sec, n_times, std_seconds) ==
    LET r == GetPprintNumUnit(table, mean_sec, "sec") IN
    IF r.exc # Ok THEN r
    ELSE IF r.ret = <<>> THEN Outcome("TypeError", <<>>)
    ELSE Outcome(Ok,
            Quantity(r.ret[1],
                     IF Truthy(std_seconds)
                     THEN <<Sqrt(Mul(std_seconds[1].sqrt,
                                     Mul(Div(r.ret[1], mean_sec), Div(r.ret[1], mean_sec))))>>
                     ELSE NoFloat,
                     r.ret[2], n_times))

\* utils.pprint_quant(cutoffs_and_units, val, n_times, std_val): unpacking
\* the None of normalize_unit is a TypeError, and norm_val / val[0] a
\* ZeroDivisionError when val[0] is 0.
PprintQuant(cutoffs_and_units, val, n_times, std_val) ==
    LET r == NormalizeUnit(val, cutoffs_and_units) IN
    IF r.exc # Ok THEN r
    ELSE IF r.ret = <<>> THEN Outcome("TypeError", <<>>)
    ELSE IF std_val # NoFloat /\ val[1].num = 0 THEN Outcome("ZeroDivisionError", <<>>)
    ELSE Outcome(Ok,
            Quantity(r.ret[1],
                     IF std_val # NoFloat
                     THEN <<Mul(std_val[1], Div(r.ret[1], val[1]))>>
                     ELSE NoFloat,
                     r.ret[2], n_times))

\* "\n".join(f"{k}:{pad} {quant[k]}" for k in ordered_keys): the lines, or the
\* error of the first line that raises.
JoinLines(ordered_keys, longest_key_length, quant) ==
    LET bad == {i \in 1..Len(ordered_keys) : quant[ordered_keys[i]].exc # Ok} IN
    IF bad # {}
    THEN quant[ordered_keys[CHOOSE i \in bad : \A j \in bad : i <= j]]
    ELSE Outcome(Ok,
            [i \in 1..Len(ordered_keys) |->
                [key |-> ordered_keys[i],
                 pad |-> longest_key_length - Len(ordered_keys[i]),
                 quant |-> quant[ordered_keys[i]].ret]])

\* total_val(key) of pprint_stats_map, for the entry of the key
TotalVal(e, cutoffs_and_units) ==
    LET f == UnitFactor(cutoffs_and_units, e.val[2], 1, 1) IN
    IF f.exc # Ok THEN Outcome("ValueError", <<e.val[2], e.key>>)
    ELSE Outcome(Ok, Times(Times(e.val[1], f.ret), e.n))

\* A dict in insertion order: its keys, and the entry of a key.
KeysOf(stats) == [i \in 1..Len(stats) |-> stats[i].key]
EntryOf(stats, k) == stats[CHOOSE i \in 1..Len(stats) : stats[i].key = k]

\* utils.pprint_stats_map(stats, cutoffs_and_units)
PprintStatsMap(stats, cutoffs_and_units) ==
    IF stats = <<>> THEN Outcome("ValueError", <<>>)
    ELSE LET keys == KeysOf(stats)
             total == [k \in Range(keys) |-> TotalVal(EntryOf(stats, k), cutoffs_and_units)]
             bad == {i \in 1..Len(keys) : total[keys[i]].exc # Ok}
         IN IF bad # {} THEN total[keys[CHOOSE i \in bad : \A j \in bad : i <= j]]
            ELSE JoinLines(PySorted(keys, [k \in Range(keys) |-> total[k].ret]),
                           LongestKeyLength(keys),
                           [k \in Range(keys) |->
                               PprintQuant(cutoffs_and_units, EntryOf(stats, k).val,
                                           EntryOf(stats, k).n, EntryOf(stats, k).std)])

\* ------------------------------------------------------------ statistics
\* _duration_stats with the deviation of the memory recorder: None up to one
\* duration.
DurationStats_NullStd(tm) ==
    [k \in DOMAIN tm |->
        <<Mean(TimesFor(tm, k)), Len(TimesFor(tm, k)),
          IF Len(TimesFor(tm, k)) <= 1 THEN NoFloat ELSE <<Std(TimesFor(tm, k))>> >>]

\* TimeableMixin._duration_stats: (mean, count, std) of every key of _timings
DurationStats(tm) ==
    [k \in DOMAIN tm |->
        <<Mean(TimesFor(tm, k)), Len(TimesFor(tm, k)), <<Std(TimesFor(tm, k))>> >>]

\* TimeableMixin._profile_durations(only_keys), order the keys of _timings in
\* insertion order; only_keys is None (<<>>) or a set (<<S>>).
ProfileDurations(tm, order, only_keys) ==
    LET stats == DurationStats(tm)
        keys == IF only_keys = <<>> THEN order ELSE Filter(order, only_keys[1])
    IN IF keys = <<>> THEN Outcome("ValueError", <<>>)
       ELSE JoinLines(PySorted(keys, [k \in Range(keys) |-> Times(stats[k][1], stats[k][2])]),
                      LongestKeyLength(keys),
                      [k \in Range(keys) |->
                          PprintDuration(TimeCutoffsAndUnits,
                                         stats[k][1], stats[k][2], stats[k][3])])

\* MemTrackableMixin._peak_mem_for, past its assertion; a memray stats dict is
\* held by its metadata.peak_memory.
PeakMemFor(ms, key) == ms[key]

\* MemTrackableMixin._memory_stats
MemoryStats(ms) ==
    [k \in DOMAIN ms |->
        <<Mean(PeakMemFor(ms, k)), Len(PeakMemFor(ms, k)),
          IF Len(PeakMemFor(ms, k)) <= 1 THEN NoFloat ELSE <<Std(PeakMemFor(ms, k))>> >>]

\* ------------------------------------------------ statistics of a host
\* Keys of the hosts whose statistics are taken, the durations of their
\* completed attempts and the peaks of their tracked blocks.
PKeys == {"k1", "fn", "step"}
Durations == {1, 2}
Peaks == {1, 2}

\* An attempt as a sample: <<d>> when completed after d, <<>> when open.
Samples == {<<>>} \cup {<<d>> : d \in Durations}

ListsUpTo(S, n) == UNION {[1..m -> S] : m \in 1..n}

\* The attempts a key has after its samples were recorded one after another
\* from time 0 on.
AttemptsOf(samples) ==
    LET Start[i \in 1..Len(samples)] ==
            IF i = 1 THEN 0
            ELSE Start[i - 1] + (IF samples[i - 1] = <<>> THEN 0 ELSE samples[i - 1][1])
    IN [i \in 1..Len(samples) |->
            IF samples[i] = <<>> THEN [start |-> Start[i]]
            ELSE [start |-> Start[i], end |-> Start[i] + samples[i][1]]]

\* The _timings a TimeableMixin host has recorded (or was constructed with):
\* at most MaxSamples attempts over its keys.
TimingsGiven ==
    {tm \in UNION {[S -> {AttemptsOf(s) : s \in ListsUpTo(Samples, MaxSamples + 1 - Cardinality(S))}]
                    : S \in SUBSET PKeys} :
        Recorded(tm) <= MaxSamples}

\* The orders a dict may hold the keys S in.
Orders(S) ==
    {o \in [1..Cardinality(S) -> S] : \A i, j \in 1..Cardinality(S) : o[i] = o[j] => i = j}

\* The _mem_stats a MemTrackableMixin host has recorded: _track_memory_as
\* appends one stats dict to its key's list at every exit.
MemStatsGiven ==
    {ms \in UNION {[S -> ListsUpTo(Peaks, MaxSamples + 1 - Cardinality(S))]
                    : S \in SUBSET PKeys} :
        Recorded(ms) <= MaxSamples}

\* The only_keys given to _profile_durations: None or a set.
OnlyKeysGiven == {<<>>, <<{"k1"}>>, <<{"k1", "fn"}>>}

\* A host apart from what the statistics read.
InitRest ==
    /\ now = 0
    /\ call = Label("init", None, Ok, 0, <<>>)
    /\ hasTimings = TRUE
    /\ stack = <<>>
    /\ lastEv = [k \in TKeys |-> "none"]
    /\ ended = [k \in TKeys |-> <<>>]
    /\ InitSwapcacheable(DefaultCacheSize)

InitStats ==
    /\ InitRest
    /\ \/ \E tm \in TimingsGiven : \E o \in Orders(DOMAIN tm) :
            /\ timings = tm
            /\ host = [mixin |-> "TimeableMixin", order |-> o]
       \/ \E ms \in MemStatsGiven :
            /\ timings = <<>>
            /\ host = [mixin |-> "MemTrackableMixin", mem_stats |-> ms]

\* self._duration_stats
QueryDurationStats ==
    /\ host.mixin = "TimeableMixin"
    /\ call' = Label("duration_stats", None, Ok, 0, DurationStats(timings))
    /\ UNCHANGED <<host, now, tvars, cvars>>

\* self._profile_durations(only_keys)
QueryProfileDurations(only_keys) ==
    /\ host.mixin = "TimeableMixin"
    /\ LET r == ProfileDurations(timings, host.order, only_keys)
       IN call' = Label("profile_durations", only_keys, r.exc, 0, r.ret)
    /\ UNCHANGED <<host, now, tvars, cvars>>

\* self._memory_stats
QueryMemoryStats ==
    /\ host.mixin = "MemTrackableMixin"
    /\ call' = Label("memory_stats", None, Ok, 0, MemoryStats(host.mem_stats))
    /\ UNCHANGED <<host, now, tvars, cvars>>

NextStats ==
    \/ QueryDurationStats
    \/ \E only_keys \in OnlyKeysGiven : QueryProfileDurations(only_keys)
    \/ QueryMemoryStats

SpecStats == InitStats /\ [][NextStats]_vars

\* ------------------------------------------------ the formatter's calls
\* The tables of the docstrings of utils.py: with a last factor of None, and
\* (pprint_quant's last example) with a numeric last factor.
DocTable ==
    <<Entry(<<1000>>, "ms"), Entry(<<60>>, "s"), Entry(<<60>>, "min"), Entry(<<>>, "h")>>
DocTableNumericLast ==
    <<Entry(<<1000>>, "ms"), Entry(<<60>>, "s"), Entry(<<60>>, "min")>>
FTables == {DocTable, DocTableNumericLast}

\* The keys of a stats map in insertion order; values, units ("ns" is in
\* neither table) and (n_times, std_val) pairs of its entries.
FKeys == <<"foo", "foobar", "z">>
FValues == {Frac(1, 2), Frac(60, 1)}
FUnits == {"ms", "min", "ns"}
FTimes == {<<1, NoFloat>>, <<3, <<Frac(1, 1)>> >>}

StatsEntries ==
    {[val |-> <<x, u>>, n |-> t[1], std |-> t[2]] :
        x \in FValues, u \in FUnits, t \in FTimes}

\* The stats maps: dicts of the first keys of FKeys, any entry for each.
StatsMaps ==
    UNION {{[i \in 1..n |-> [key |-> FKeys[i], val |-> e[i].val,
                             n |-> e[i].n, std |-> e[i].std]]
                : e \in [1..n -> StatsEntries]}
            : n \in 0..Len(FKeys)}

InitFormat ==
    /\ InitRest
    /\ timings = <<>>
    /\ \E table \in FTables, st \in StatsMaps :
            host = [mixin |-> "utils", table |-> table, stats |-> st]

\* normalize_unit(val, table) for the value of the i-th entry
CallNormalizeUnit(i) ==
    /\ host.mixin = "utils"
    /\ i \in 1..Len(host.stats)
    /\ LET r == NormalizeUnit(host.stats[i].val, host.table)
       IN call' = Label("normalize_unit", host.stats[i].key, r.exc, i, r.ret)
    /\ UNCHANGED <<host, now, tvars, cvars>>

\* cls._get_pprint_num_unit(x, x_unit) for the value of the i-th entry, cls a
\* subclass of TimeableMixin whose _CUTOFFS_AND_UNITS is the table
CallGetPprintNumUnit(i) ==
    /\ host.mixin = "utils"
    /\ i \in 1..Len(host.stats)
    /\ LET r == GetPprintNumUnit(host.table, host.stats[i].val[1], host.stats[i].val[2])
       IN call' = Label("get_pprint_num_unit", host.stats[i].key, r.exc, i, r.ret)
    /\ UNCHANGED <<host, now, tvars, cvars>>

\* pprint_stats_map(stats, table)
CallPprintStatsMap ==
    /\ host.mixin = "utils"
    /\ LET r == PprintStatsMap(host.stats, host.table)
       IN call' = Label("pprint_stats_map", None, r.exc, 0, r.ret)
    /\ UNCHANGED <<host, now, tvars, cvars>>

NextFormat ==
    \/ \E i \in 1..Len(FKeys) : CallNormalizeUnit(i)
    \/ \E i \in 1..Len(FKeys) : CallGetPprintNumUnit(i)
    \/ CallPprintStatsMap

SpecFormat == InitFormat /\ [][NextFormat]_vars

\* ------------------------------------------------ one quantity formatted
\* The table of the subclass of tests/test_timeable_mixin.py
DerivedTable ==
    <<Entry(<<10>>, "foo"), Entry(<<2>>, "bar"), Entry(<<>>, "biz")>>

\* Quantities given to the formatter with each table: values and units (the
\* last unit of each list is in no table).
QValues == {Frac(0, 1), Frac(1, 2), Frac(1, 1), Frac(60, 1), Frac(90, 1)}
QUnits == {"ms", "s", "min", "ns"}
DerivedValues == {Frac(3, 1), Frac(3, 20), Frac(24, 1)}
DerivedUnits == {"foo", "biz", "WRONG"}
SecValues == {Frac(0, 1), Frac(1, 2), Frac(2, 1)}
SecUnits == {"sec", "ms", "ns"}

QuantitiesGiven ==
    ({DocTable, DocTableNumericLast} \X QValues \X QUnits)
        \cup ({DerivedTable} \X DerivedValues \X DerivedUnits)
        \cup ({TimeCutoffsAndUnits} \X SecValues \X SecUnits)

\* (n_times, std_val): the deviation is None, 0 or 1.
QTimes == {1, 3} \X {NoFloat, <<Frac(0, 1)>>, <<Frac(1, 1)>>}

InitQuant ==
    /\ InitRest
    /\ timings = <<>>
    /\ \E q \in QuantitiesGiven, t \in QTimes :
            host = [mixin |-> "utils", table |-> q[1],
                    stats |-> <<[key |-> "foo", val |-> <<q[2], q[3]>>,
                                 n |-> t[1], std |-> t[2]]>>]

\* pprint_quant(table, val, n_times, std_val) for the i-th entry
CallPprintQuant(i) ==
    /\ host.mixin = "utils"
    /\ i \in 1..Len(host.stats)
    /\ LET e == host.stats[i]
           r == PprintQuant(host.table, e.val, e.n, e.std)
       IN call' = Label("pprint_quant", e.key, r.exc, i, r.ret)
    /\ UNCHANGED <<host, now, tvars, cvars>>

\* cls._pprint_duration(mean_sec, n_times, std_seconds) for the i-th entry,
\* its value read as seconds; cls is a subclass of TimeableMixin whose
\* _CUTOFFS_AND_UNITS is the table, and the floats are numpy's, as
\* _profile_durations passes them. (A deviation is held by its square.)
CallPprintDuration(i) ==
    /\ host.mixin = "utils"
    /\ i \in 1..Len(host.stats)
    /\ LET e == host.stats[i]
           std == IF e.std = NoFloat THEN NoFloat ELSE <<Sqrt(Mul(e.std[1], e.std[1]))>>
           r == PprintDuration(host.table, e.val[1], e.n, std)
       IN call' = Label("pprint_duration", e.key, r.exc, i, r.ret)
    /\ UNCHANGED <<host, now, tvars, cvars>>

NextQuant ==
    \/ CallNormalizeUnit(1)
    \/ CallGetPprintNumUnit(1)
    \/ CallPprintQuant(1)
    \/ CallPprintDuration(1)

SpecQuant == InitQuant /\ [][NextQuant]_vars

\* ------------------------------------------------------------ seeding
\* The generators of the process ("random" and "numpy"; torch is not
\* installed): the state of a generator is <<origin, n>>, the seed it was
\* last seeded with (or the entropy the process started it from, a negative
\* number) and the number of draws since.
Engines == {"numpy", "random"}
Entropy == {-1, -2}
SeedsGiven == {0, 1}
SKeys == {None, "foo"}

\* What a generator in state st draws from 0..MaxSeed: a fixed function of
\* the state (the generators are pseudo-random).
RandInt(st) == (st[1] + 2 + st[2]) % (MaxSeed + 1)

\* The state after a draw, and after seeding.
Drawn(st) == <<st[1], st[2] + 1>>
Seeded(seed) == <<seed, 0>>

\* seed_everything(seed, seed_engines) with a seed given, as _seed calls it;
\* seed_engines is None (<<>>) or a set (<<S>>).
SeedEverything(rng, seed, seed_engines) ==
    LET engines == IF seed_engines = <<>> THEN Engines ELSE seed_engines[1]
    IN [e \in Engines |-> IF e \in engines THEN Seeded(seed) ELSE rng[e]]

\* SeedableMixin.__init__(_seed_engines=engines)
InitSeedable(engines, rng) ==
    [mixin |-> "SeedableMixin", has_past |-> TRUE, past_seeds |-> <<>>,
     seed_engines |-> <<engines>>, seed |-> <<>>, rng |-> rng]

\* A host of a subclass whose __init__ does not call SeedableMixin.__init__
\* (SeedableDerived of the tests): neither attribute is there.
InitSeedableDerived(rng) ==
    [mixin |-> "SeedableMixin", has_past |-> FALSE, past_seeds |-> <<>>,
     seed_engines |-> <<>>, seed |-> <<>>, rng |-> rng]

\* The loop of _last_seed over self._past_seeds[::-1] from idx on: the first
\* entry with the key, its index counted from the front.
RECURSIVE LastSeedFrom(_, _, _)
LastSeedFrom(past, key, idx) ==
    IF idx >= Len(past) THEN <<-1, <<>> >>
    ELSE IF Reverse(past)[idx + 1].key = key
         THEN <<Len(past) - 1 - idx, <<Reverse(past)[idx + 1].seed>> >>
    ELSE LastSeedFrom(past, key, idx + 1)

\* self._last_seed(key)
LastSeed(h, key) ==
    IF ~h.has_past THEN Outcome("AttributeError", <<>>)
    ELSE Outcome(Ok, LastSeedFrom(h.past_seeds, key, 0))

\* self._seed(seed, key) at time t; seed and key are None or given. The
\* result is the host after the call and the seed returned.
SeedHost(h, seed, key, t) ==
    LET s == IF seed = <<>> THEN RandInt(h.rng["random"]) ELSE seed[1]
        rng == IF seed = <<>>
               THEN [h.rng EXCEPT !["random"] = Drawn(h.rng["random"])]
               ELSE h.rng
        entry == [seed |-> s, key |-> IF key = None THEN "" ELSE key, time |-> t]
    IN [st |-> [h EXCEPT !.seed = <<s>>,
                         !.has_past = TRUE,
                         !.past_seeds = IF h.has_past THEN Append(h.past_seeds, entry)
                                        ELSE <<entry>>,
                         !.rng = SeedEverything(rng, s, h.seed_engines)],
        ret |-> s]

\* (random.random(), np.random.rand()): one draw of each generator, as the
\* methods of the tests' SeedableDerived make.
GenRandomNum(rng) ==
    [rng |-> [e \in Engines |-> Drawn(rng[e])],
     ret |-> <<RandInt(rng["random"]), RandInt(rng["numpy"])>>]

InitSeed ==
    /\ InitRest
    /\ timings = <<>>
    /\ \E o \in Entropy :
        LET rng == [e \in Engines |-> <<o, 0>>] IN
        \/ \E engines \in {Engines, {"numpy"}, {"random"}} :
                host = InitSeedable(engines, rng)
        \/ host = InitSeedableDerived(rng)

\* Every generator a call draws from has draws left.
CanDraw(es) == \A e \in es : host.rng[e][2] < MaxDraws

\* self._seed(seed, key)
Seed(seed, key) ==
    /\ host.mixin = "SeedableMixin"
    /\ Len(host.past_seeds) < MaxPastSeeds
    /\ seed = <<>> => CanDraw({"random"})
    /\ LET r == SeedHost(host, seed, key, now) IN
        /\ host' = r.st
        /\ call' = Label("seed", key, Ok, seed, r.ret)
    /\ UNCHANGED <<now, tvars, cvars>>

\* self._last_seed(key)
QueryLastSeed(key) ==
    /\ host.mixin = "SeedableMixin"
    /\ LET r == LastSeed(host, key)
       IN call' = Label("last_seed", key, r.exc, 0, r.ret)
    /\ UNCHANGED <<host, now, tvars, cvars>>

\* self.decorated_gen_random_num(seed=seed), a method decorated with
\* WithSeed(key="decorated"): wrapper_seeding seeds, then calls the method.
CallWithSeed(seed) ==
    /\ host.mixin = "SeedableMixin"
    /\ Len(host.past_seeds) < MaxPastSeeds
    /\ seed = <<>> => CanDraw({"random"})
    /\ LET r == SeedHost(host, seed, "decorated", now)
           g == GenRandomNum(r.st.rng)
       IN /\ \A e \in Engines : r.st.rng[e][2] < MaxDraws
          /\ host' = [r.st EXCEPT !.rng = g.rng]
          /\ call' = Label("with_seed", "decorated", Ok, seed, <<r.ret, g.ret>>)
    /\ UNCHANGED <<now, tvars, cvars>>

\* self.gen_random_num(): draws without seeding
CallGenRandomNum ==
    /\ host.mixin = "SeedableMixin"
    /\ CanDraw(Engines)
    /\ LET g == GenRandomNum(host.rng) IN
        /\ host' = [host EXCEPT !.rng = g.rng]
        /\ call' = Label("gen_random_num", None, Ok, 0, g.ret)
    /\ UNCHANGED <<now, tvars, cvars>>

NextSeed ==
    \/ \E seed \in {<<>>} \cup {<<s>> : s \in SeedsGiven}, key \in SKeys : Seed(seed, key)
    \/ \E key \in SKeys : QueryLastSeed(key)
    \/ \E seed \in {<<>>} \cup {<<s>> : s \in SeedsGiven} : CallWithSeed(seed)
    \/ CallGenRandomNum

SpecSeed == InitSeed /\ [][NextSeed]_vars

\* ------------------------------------------------------------ saving
\* A host of SaveableMixin and the one filepath it is saved to. The host's
\* own attributes are `attrs` (name -> value; "lambda" is a value pickle
\* cannot serialize), do_overwrite is held apart, and `fs` is what is at the
\* filepath: nothing, a directory, or a file holding a pickled object.
Picklers == {"pickle", "dill", "not_supported"}
AttrValues == {"2", "3"}
CacheValues == {"data", "lambda"}
NoFile == [kind |-> "none"]
Dir == [kind |-> "dir"]
FileOf(obj) == [kind |-> "file", obj |-> obj]

\* The object a dump writes: the instance's __dict__.
Pickled(h) == [attrs |-> h.attrs, has_do_overwrite |-> h.has_do_overwrite,
               do_overwrite |-> h.do_overwrite]

\* The attribute dicts of a host: `a` always, `cache` maybe.
AttrsGiven ==
    {[n \in {"a"} |-> a] : a \in AttrValues}
        \cup {[n \in {"a", "cache"} |-> IF n = "a" THEN a ELSE c] :
                a \in AttrValues, c \in CacheValues}

\* d without the names of S, and d with the entries of u put back.
Without(d, S) == [n \in DOMAIN d \ S |-> d[n]]
PutBack(d, u) == [n \in DOMAIN d \cup DOMAIN u |-> IF n \in DOMAIN u THEN u[n] ELSE d[n]]

\* The match statement of _save and _load: what the pickler raises before it
\* serializes, if anything.
PicklerError(h) ==
    IF h.pickler = "dill" THEN (IF h.dill_imported THEN Ok ELSE "ImportError")
    ELSE IF h.pickler = "pickle" THEN Ok
    ELSE "NotImplementedError"

\* dill.dump(self, f) / pickle.dump(self, f): pickle cannot serialize a
\* lambda, dill can.
DumpError(h) ==
    IF PicklerError(h) # Ok THEN PicklerError(h)
    ELSE IF h.pickler = "pickle" /\ \E n \in DOMAIN h.attrs : h.attrs[n] = "lambda"
         THEN "PicklingError"
    ELSE Ok

\* cls._load(filepath), cls the host's class
Load(h) ==
    IF h.fs.kind = "none" THEN Outcome("FileNotFoundError", <<>>)
    ELSE IF h.fs.kind = "dir" THEN Outcome("IsADirectoryError", <<>>)
    ELSE IF PicklerError(h) # Ok THEN Outcome(PicklerError(h), <<>>)
    ELSE Outcome(Ok, h.fs.obj)

\* The try block that leaves the file where it is when the dump raises.
WriteFile_KeepsFile(h, skipped) ==
    IF h.fs.kind = "dir" THEN Result(h, "IsADirectoryError")
    ELSE IF DumpError(h) # Ok THEN Result([h EXCEPT !.fs = FileOf(<<>>)], DumpError(h))
    ELSE Result([h EXCEPT !.fs = FileOf(Pickled(h)),
                          !.attrs = PutBack(h.attrs, skipped)], Ok)

\* The try block of _save and what follows it, for a host whose attributes
\* of _DEL_BEFORE_SAVING_ATTRS are already popped into `skipped`: open()
\* fails on a directory and so does the unlink() of the handler (Linux:
\* IsADirectoryError); otherwise the file is created, and removed again when
\* the dump raises. The attributes are put back only past the try block.
WriteFile(h, skipped) ==
    IF h.fs.kind = "dir" THEN Result(h, "IsADirectoryError")
    ELSE IF DumpError(h) # Ok THEN Result([h EXCEPT !.fs = NoFile], DumpError(h))
    ELSE Result([h EXCEPT !.fs = FileOf(Pickled(h)),
                          !.attrs = PutBack(h.attrs, skipped)], Ok)

\* The test that lets every save through.
MayWrite_Always(h, do_overwrite) == TRUE

\* The test of _save before it writes: may the filepath be written?
MayWrite(h, do_overwrite) == h.do_overwrite \/ do_overwrite \/ h.fs.kind = "none"

\* self._save(filepath, do_overwrite)
SaveHost(h, do_overwrite) ==
    LET h1 == IF h.has_do_overwrite THEN h
              ELSE [h EXCEPT !.has_do_overwrite = TRUE, !.do_overwrite = FALSE]
        del == Range(h.del_before_saving) \cap DOMAIN h1.attrs
        skipped == [n \in del |-> h1.attrs[n]]
    IN IF ~MayWrite(h1, do_overwrite) THEN Result(h1, "FileExistsError")
       ELSE WriteFile([h1 EXCEPT !.attrs = Without(h1.attrs, del)], skipped)

\* Hosts as constructed (and with _PICKLER reassigned, as the tests do), with
\* or without the do_overwrite attribute, and what may be at the filepath.
InitSave ==
    /\ InitRest
    /\ timings = <<>>
    /\ \E pickler \in Picklers, dill_imported \in BOOLEAN,
          ow \in {<<>>, <<FALSE>>, <<TRUE>>},
          attrs \in AttrsGiven, del \in {<<>>, <<"cache">>},
          fs \in {NoFile, Dir}
                    \cup {FileOf([attrs |-> s, has_do_overwrite |-> TRUE,
                                  do_overwrite |-> FALSE]) : s \in AttrsGiven} :
            host = [mixin |-> "SaveableMixin", pickler |-> pickler,
                    dill_imported |-> dill_imported,
                    has_do_overwrite |-> ow # <<>>,
                    do_overwrite |-> IF ow = <<>> THEN FALSE ELSE ow[1],
                    attrs |-> attrs, del_before_saving |-> del, fs |-> fs]

\* self._save(filepath, do_overwrite)
Save(do_overwrite) ==
    /\ host.mixin = "SaveableMixin"
    /\ LET r == SaveHost(host, do_overwrite) IN
        /\ host' = r.st
        /\ call' = Label("save", IF do_overwrite THEN "True" ELSE "False", r.exc, 0, <<>>)
    /\ UNCHANGED <<now, tvars, cvars>>

\* cls._load(filepath)
CallLoad ==
    /\ host.mixin = "SaveableMixin"
    /\ LET r == Load(host)
       IN call' = Label("load", None, r.exc, 0, r.ret)
    /\ UNCHANGED <<host, now, tvars, cvars>>

NextSave ==
    \/ \E do_overwrite \in BOOLEAN : Save(do_overwrite)
    \/ CallLoad

SpecSave == InitSave /\ [][NextSave]_vars

\* A host composes one of the two mixins and is driven through its calls.
InitMixins == Init \/ InitCache

NextMixins ==
    \/ host.mixin = "TimeableMixin" /\ NextTime
    \/ host.mixin = "SwapcacheableMixin" /\ NextCache

SpecMixins == InitMixins /\ [][NextMixins]_vars

\* ---------------------------------------------------------------- claims

\* The n most recent entries of a history, oldest first.
MostRecent(h, n) == SubSeq(h, (IF Len(h) > n THEN Len(h) - n ELSE 0) + 1, Len(h))

OpenAttempts(k) == {i \in 1..Len(timings[k]) : IsOpen(timings[k][i])}

\* C1: after any sequence of begin/end calls, direct or through _time_as and
\* TimeAs, every key has at most one attempt with a start and no end
\* timestamp, and only the most recent attempt of a key can be open.
C1_OneOpenAttempt ==
    \A k \in DOMAIN timings :
        /\ Cardinality(OpenAttempts(k)) <= 1
        /\ \A i \in OpenAttempts(k) : i = Len(timings[k])

\* C2: end(key) fails when the key was never begun or when its most recent
\* attempt already has an end timestamp, so a second end(key) with no begin(key)
\* in between fails; it succeeds otherwise, and then sets the end timestamp on
\* the most recent attempt of that key only: every earlier attempt and every
\* other key are as before.
C2_EndContract ==
    [][\A k \in TKeys :
        (call'.op = "end" /\ call'.key = k) =>
            /\ lastEv[k] \in {"none", "end"} => call'.exc = "AssertionError"
            /\ (k \in DOMAIN timings /\ ~IsOpen(Last(timings[k])))
                    => call'.exc = "AssertionError"
            /\ lastEv[k] = "begin" => call'.exc = Ok
            /\ call'.exc = Ok =>
                /\ DOMAIN timings' = DOMAIN timings
                /\ \A k2 \in DOMAIN timings \ {k} : timings'[k2] = timings[k2]
                /\ Len(timings'[k]) = Len(timings[k])
                /\ \A i \in 1..(Len(timings[k]) - 1) : timings'[k][i] = timings[k][i]
                /\ IsOpen(Last(timings[k]))
                /\ Last(timings'[k]) = [start |-> Last(timings[k]).start, end |-> now]
      ]_vars

\* C2's case: an end(key) right after a successful end(key) has failed, the
\* closed attempt still in place.
C2_Witness ==
    /\ call.op = "end" /\ call.exc = "AssertionError"
    /\ lastEv[call.key] = "end"
    /\ call.key \in DOMAIN timings
    /\ "end" \in DOMAIN Last(timings[call.key])

\* C3: for every key, completed_durations(key) has exactly one entry per
\* successful end(key), in recording order, open attempts are skipped, and
\* every entry is >= 0 under a clock that never goes backwards.
C3_CompletedDurations ==
    /\ \A k \in DOMAIN timings :
        /\ TimesFor(timings, k) = ended[k]
        /\ \A i \in 1..Len(TimesFor(timings, k)) : TimesFor(timings, k)[i] >= 0
    /\ (call.op = "times_for" /\ call.exc = Ok) => call.ret = ended[call.key]

\* C3's case: _times_for has returned the one completed duration of a key
\* that also has an open attempt, recorded before the completed one.
C3_Witness ==
    /\ call.op = "times_for" /\ call.exc = Ok
    /\ Len(call.ret) = 1 /\ call.ret[1] > 0
    /\ Len(timings[call.key]) = 2
    /\ IsOpen(timings[call.key][1])

\* C4: once a _time_as(key) block has exited, by a normal return or by an
\* error of the wrapped work, the attempt the block opened has an end
\* timestamp, and the error, if any, has propagated to the caller.
C4_ScopeEndsItsAttempt ==
    call.op = "exit_time_as" =>
        /\ "end" \in DOMAIN timings[call.key][call.idx]
        /\ call.ret # None => call.exc # Ok

\* C5: once a call of a TimeAs-decorated method has exited, by a return or by
\* an error of the method, the attempt the call opened under its key has an
\* end timestamp.
C5_DecoratedCallEndsItsAttempt ==
    call.op = "exit_decorated" => "end" \in DOMAIN timings[call.key][call.idx]

\* The calls that may change the active key.
Activating == {"activate", "swap_to", "update", "update_current"}

\* C6: a bundle persists across deactivation: with k cached, within
\* capacity, and holding {x: v} from an update, activating another key and
\* then activating k again succeeds, k is the active key and the host has
\* x = v again.
C6_BundleRestored ==
    [][\A k \in CKeys :
        (/\ call.op = "activate" /\ call.exc = Ok
         /\ call.key = swap.front_cache_key
         /\ call'.op = "activate" /\ call'.key = k
         /\ k # swap.front_cache_key
         /\ SwapcacheHasKey(swap, k)
         /\ Len(swap.keys) <= cacheSize
         /\ DOMAIN Bundle(swap, k) # {})
        => /\ call'.exc = Ok
           /\ swap'.front_cache_key = k
           /\ \A a \in DOMAIN Bundle(swap, k) :
                a \in DOMAIN swap'.attrs /\ swap'.attrs[a] = Bundle(swap, k)[a]
      ]_vars

\* C7: after every successful activate/swap_to/update that changed the active
\* key, the attributes the swap cache has materialized on the host are exactly
\* the entries of the newly active key's bundle (what the previous key had
\* materialized and the new bundle lacks is deleted), and the front-attribute
\* set is the set of the new bundle's names. (Stated for a cache within its
\* capacity.)
C7_FrontIsNewBundle ==
    (/\ call.op \in Activating /\ call.exc = Ok
     /\ swap.front_cache_key # prevFront
     /\ Len(swap.keys) <= cacheSize) =>
        /\ SwapcacheHasKey(swap, swap.front_cache_key)
        /\ swap.attrs = Bundle(swap, swap.front_cache_key)
        /\ Range(swap.front_attrs) = DOMAIN Bundle(swap, swap.front_cache_key)

\* C8: for every capacity N given at construction, 0 and 1 included, the swap
\* cache holds at most N (key, bundle) entries after any sequence of calls.
C8_AtMostCapacity ==
    /\ Len(swap.keys) <= cacheSize
    /\ Len(swap.values) <= cacheSize

\* C9: eviction is FIFO by insertion order: with capacity N >= 1 the cache
\* holds exactly the N most recently inserted keys, in insertion order, with
\* one bundle each; has_key is false for a key that was evicted; the key just
\* inserted is the last entry and the active key, never the one evicted.
C9_FifoEviction ==
    cacheSize >= 1 =>
        /\ KeyNames(swap) = MostRecent(inserted, cacheSize)
        /\ Len(swap.values) = Len(swap.keys)
        /\ \A k \in CKeys :
            SwapcacheHasKey(swap, k) <=> k \in Range(MostRecent(inserted, cacheSize))
        /\ (call.op = "has_key" /\ call.key \notin Range(MostRecent(inserted, cacheSize)))
                => call.ret = FALSE
        /\ inserted # <<>> =>
                /\ Last(swap.keys)[1] = Last(inserted)
                /\ swap.front_cache_key = Last(inserted)

\* C9's case: N + 1 distinct keys were activated with capacity N >= 2, and
\* has_key has answered false for the first of them.
C9_Witness ==
    /\ cacheSize >= 2
    /\ Len(inserted) = cacheSize + 1
    /\ Cardinality(Range(inserted)) = cacheSize + 1
    /\ Len(swap.keys) = cacheSize
    /\ call.op = "has_key" /\ call.key = inserted[1] /\ call.ret = FALSE

\* C10: activate(key) with key the currently active key is a no-op: it
\* succeeds, and the key list, the bundles, the active key and index, the
\* front attributes and the host's attributes and their values are unchanged.
C10_ReactivateIsNoOp ==
    [][\A k \in CKeys :
        (call'.op = "activate" /\ call'.key = k /\ k = swap.front_cache_key) =>
            /\ call'.exc = Ok
            /\ swap' = swap
            /\ inserted' = inserted
      ]_vars

\* C10's case: the active key, whose bundle is materialized on the host, has
\* been activated again.
C10_Witness ==
    /\ call.op = "activate" /\ call.exc = Ok
    /\ call.key = prevFront /\ prevFront # None
    /\ swap.front_cache_key = call.key
    /\ DOMAIN swap.attrs # {}
    /\ Len(swap.keys) = 2

\* The bundle a key has in the cache, empty for a key the cache lacks.
BundleOrEmpty(c, key) == IF SwapcacheHasKey(c, key) THEN Bundle(c, key) ELSE <<>>

\* C11: update(key, updates) fails when key is None; otherwise, whether key
\* is unseen, the active key or a cached inactive key, it succeeds, key is
\* the active key, its bundle is the bundle it had (empty when unseen)
\* overridden by updates, and every name of that bundle is an attribute of the
\* host with the bundle's value.
C11_UpdateMergesAndActivates ==
    [][\A k \in CKeys :
        (call'.op = "update" /\ call'.key = k) =>
            IF k = None THEN call'.exc = "AssertionError"
            ELSE /\ call'.exc = Ok
                 /\ swap'.front_cache_key = k
                 /\ SwapcacheHasKey(swap', k)
                 /\ Bundle(swap', k) = DictUpdate(BundleOrEmpty(swap, k), given')
                 /\ \A a \in DOMAIN Bundle(swap', k) :
                        a \in DOMAIN swap'.attrs /\ swap'.attrs[a] = Bundle(swap', k)[a]
      ]_vars

\* C12: swap_to(key) fails when key is not in the cache and then, unlike
\* activate, appends no entry and evicts none; when key is cached it does
\* what activate(key) does and key is the active key afterwards.
C12_SwapToContract ==
    [][\A k \in CKeys :
        (call'.op = "swap_to" /\ call'.key = k) =>
            IF ~SwapcacheHasKey(swap, k)
            THEN /\ call'.exc = "AssertionError"
                 /\ swap' = swap
                 /\ inserted' = inserted
            ELSE /\ call'.exc = Ok
                 /\ swap' = SetSwapcacheKey(swap, k, cacheSize, now).st
                 /\ swap'.front_cache_key = k
      ]_vars

\* The errors the mixins raise themselves: failed assertions and the errors
\* of their own statements (an exception of the timed work is none of them).
Raised == {"AssertionError", "AttributeError", "TypeError", "IndexError"}

C14_TimeSoFarContract ==
    [][\A k \in TKeys :
        (call'.op = "time_so_far" /\ call'.key = k) =>
            /\ k \notin DOMAIN timings => call'.exc = "AssertionError"
            /\ lastEv[k] = "end" => call'.exc = "AssertionError"
            /\ k \in DOMAIN timings =>
                IF IsOpen(Last(timings[k]))
                THEN /\ call'.exc = Ok
                     /\ call'.ret = now - Last(timings[k]).start
                     /\ call'.ret >= 0
                ELSE call'.exc = "AssertionError"
            /\ UNCHANGED <<now, hasTimings, timings, stack>>
      ]_vars

\* C14's case: _time_so_far has failed for a key right after its end, the
\* completed attempt in place.
C14_Witness ==
    /\ call.op = "time_so_far" /\ call.exc = "AssertionError"
    /\ lastEv[call.key] = "end"
    /\ call.key \in DOMAIN timings
    /\ "end" \in DOMAIN Last(timings[call.key])
    /\ Last(timings[call.key]).end > Last(timings[call.key]).start

\* The samples a statistic of key k is taken over: the completed durations of
\* a timing host, the peaks of a memory host.
SamplesOf(k) ==
    IF host.mixin = "TimeableMixin" THEN TimesFor(timings, k) ELSE host.mem_stats[k]

StatsCalls == {"duration_stats", "memory_stats"}

\* C15: _duration_stats and _memory_stats alike give every key (mean, count,
\* stddev) over its completed durations, count being their number, and the
\* stddev is None (not 0) whenever count <= 1.
C15_StddevNullUpToOne ==
    call.op \in StatsCalls =>
        \A k \in DOMAIN call.ret :
            /\ call.ret[k][2] = Len(SamplesOf(k))
            /\ call.ret[k][2] <= 1 => call.ret[k][3] = NoFloat

\* C15, amended: both give (mean, count, stddev) with count the number of
\* completed samples and mean their sum over count; _memory_stats gives a
\* stddev of None exactly when count <= 1; _duration_stats never gives None:
\* its stddev is 0 when count = 1, and NaN like its mean when count = 0.
C15_StddevByRecorder ==
    call.op \in StatsCalls =>
        \A k \in DOMAIN call.ret :
            LET s == SamplesOf(k)
                r == call.ret[k]
            IN /\ r[2] = Len(s)
               /\ Len(s) >= 1 => ~IsNaN(r[1]) /\ r[1].num * Len(s) = SumOf(s) * r[1].den
               /\ call.op = "memory_stats" => (r[3] = NoFloat <=> Len(s) <= 1)
               /\ call.op = "duration_stats" =>
                    /\ r[3] # NoFloat
                    /\ Len(s) = 1 => r[3][1].sqrt.num = 0 /\ r[3][1].sqrt.den # 0
                    /\ Len(s) = 0 => IsNaN(r[1]) /\ IsNaN(r[3][1].sqrt)

\* C15's case: _duration_stats has given a key with one completed duration a
\* stddev of 0, and a key with none a NaN.
C15_Witness ==
    /\ call.op = "duration_stats"
    /\ \E k \in DOMAIN call.ret :
        /\ call.ret[k][2] = 1
        /\ call.ret[k][3] = <<Sqrt(Frac(0, 1))>>
    /\ \E k \in DOMAIN call.ret : call.ret[k][2] = 0

\* The keys of a timing host that have a completed duration, and the host
\* with only these.
Completed == {k \in DOMAIN timings : TimesFor(timings, k) # <<>>}

LineKeys(lines) == [i \in 1..Len(lines) |-> lines[i].key]

\* C16: _profile_durations reports exactly the keys with at least one
\* completed duration (and in only_keys, when given); a key whose attempts
\* are all open has no line and changes neither the lines of the other keys
\* nor their order: the report is the one of the host without such keys.
C16_ProfileReportsCompletedKeys ==
    (call.op = "profile_durations" /\ call.exc = Ok) =>
        /\ Range(LineKeys(call.ret)) =
                IF call.key = <<>> THEN Completed ELSE Completed \cap call.key[1]
        /\ call.ret = ProfileDurations([k \in Completed |-> timings[k]],
                                       Filter(host.order, Completed), call.key).ret

\* mean duration times count of the completed attempts of a key
TotalTime(k) == Times(Mean(TimesFor(timings, k)), Len(TimesFor(timings, k)))

\* C17: the lines of _profile_durations are in ascending order of the keys'
\* total time (mean times count), the key with the largest total last, one
\* line for every reported key.
C17_ProfileAscendingByTotal ==
    (call.op = "profile_durations" /\ call.exc = Ok) =>
        LET keys == LineKeys(call.ret) IN
        /\ \A i, j \in 1..Len(keys) : i < j => ~Lt(TotalTime(keys[j]), TotalTime(keys[i]))
        /\ \A i \in 1..Len(keys) : ~Lt(TotalTime(keys[Len(keys)]), TotalTime(keys[i]))
        /\ \A i, j \in 1..Len(keys) : keys[i] = keys[j] => i = j
        /\ Range(keys) = IF call.key = <<>> THEN Range(host.order)
                         ELSE Range(host.order) \cap call.key[1]

Units(table) == {table[i].unit : i \in 1..Len(table)}

\* C18: normalize_unit and _get_pprint_num_unit raise LookupError for every
\* table and every unit that is not a unit of the table, and return nothing
\* then.
C18_AbsentUnitIsLookupError ==
    (call.op \in {"normalize_unit", "get_pprint_num_unit"}
        /\ host.stats[call.idx].val[2] \notin Units(host.table)) =>
            call.exc = "LookupError"

\* C19: pprint_stats_map raises ValueError, naming a key whose unit is absent,
\* whenever the unit of any key is not a unit of the table, whatever the table
\* and the number of keys; it returns no lines then.
C19_AbsentUnitIsValueError ==
    (call.op = "pprint_stats_map"
        /\ \E i \in 1..Len(host.stats) : host.stats[i].val[2] \notin Units(host.table)) =>
            /\ call.exc = "ValueError"
            /\ \E i \in 1..Len(host.stats) :
                /\ host.stats[i].val[2] \notin Units(host.table)
                /\ call.ret = <<host.stats[i].val[2], host.stats[i].key>>

\* The product of the factors of the entries below the i-th.
RECURSIVE ProductBelow(_, _)
ProductBelow(table, i) ==
    IF i = 1 THEN 1 ELSE table[i - 1].fac[1] * ProductBelow(table, i - 1)

\* The value of an entry in the table's first unit, times its count.
BaseTotal(e) ==
    Times(e.val[1],
          ProductBelow(host.table,
                       CHOOSE i \in 1..Len(host.table) : host.table[i].unit = e.val[2])
            * e.n)

\* C20: the lines pprint_stats_map returns are in ascending order of the
\* keys' totals in the table's first unit (value converted from the key's own
\* unit, times count), whatever units of the table the keys use, one line for
\* every key.
C20_LinesAscendingByBaseTotal ==
    (/\ call.op = "pprint_stats_map" /\ call.exc = Ok
     /\ \A i \in 1..Len(host.stats) : host.stats[i].val[2] \in Units(host.table)) =>
        LET keys == LineKeys(call.ret) IN
        /\ Len(keys) = Len(host.stats)
        /\ Range(keys) = Range(KeysOf(host.stats))
        /\ \A i, j \in 1..Len(keys) :
            i < j => ~Lt(BaseTotal(EntryOf(host.stats, keys[j])),
                         BaseTotal(EntryOf(host.stats, keys[i])))

\* C20's case: three keys in two units, the last inserted with the smallest
\* total although its value is the largest, is the first line.
C20_Witness ==
    /\ call.op = "pprint_stats_map" /\ call.exc = Ok
    /\ Len(host.stats) = 3
    /\ host.stats[3].val = <<Frac(60, 1), "ms">>
    /\ host.stats[1].val = <<Frac(1, 2), "min">>
    /\ host.stats[2].val = <<Frac(1, 2), "min">> /\ host.stats[2].n = 3
    /\ LineKeys(call.ret) = <<FKeys[3], FKeys[1], FKeys[2]>>

\* The calls that format one quantity, the entry such a call was given, and
\* the unit its value is in (_pprint_duration takes seconds).
QuantCalls == {"pprint_quant", "pprint_duration"}
QuantGiven == host.stats[call.idx]
QuantUnit == IF call.op = "pprint_duration" THEN "sec" ELSE QuantGiven.val[2]

\* The place of a unit in a table.
UnitIndex(table, u) == CHOOSE i \in 1..Len(table) : table[i].unit = u

\* The factor from the given unit to the unit shown: the ratio of the
\* products of the factors below them.
ConversionFactor ==
    Frac(ProductBelow(host.table, UnitIndex(host.table, QuantUnit)),
         ProductBelow(host.table, UnitIndex(host.table, call.ret.unit)))

\* The deviation a returned quantity shows is the given one times the
\* conversion factor.
StdScaled ==
    IF call.op = "pprint_duration"
    THEN call.ret.std[1].sqrt
            = Mul(Mul(QuantGiven.std[1], QuantGiven.std[1]),
                  Mul(ConversionFactor, ConversionFactor))
    ELSE call.ret.std[1] = Mul(QuantGiven.std[1], ConversionFactor)

\* The " (xN)" suffix is there exactly when the count exceeds 1, with N the
\* count.
SuffixByCount ==
    call.ret.times = IF QuantGiven.n > 1 THEN <<QuantGiven.n>> ELSE <<>>

PlacesOf(past, key) == {i \in 1..Len(past) : past[i].key = key}

\* What C22 says _last_seed(key) returns for a history.
LastOf(past, key) ==
    IF PlacesOf(past, key) = {} THEN <<-1, <<>> >>
    ELSE LET i == CHOOSE i \in PlacesOf(past, key) : \A j \in PlacesOf(past, key) : j <= i
         IN <<i - 1, <<past[i].seed>> >>

\* C22: _last_seed(key) returns (i, s) with i the greatest index of the seed
\* history whose entry has the key and s that entry's seed, and (-1, None)
\* when no entry has the key, and leaves the host as it is; every _seed call
\* (direct or by a WithSeed wrapper) appends exactly one entry and leaves the
\* earlier entries in place.
C22_LastSeedContract ==
    [][/\ call'.op = "last_seed" =>
            /\ call'.exc = Ok
            /\ call'.ret = LastOf(host.past_seeds, call'.key)
            /\ host' = host
       /\ call'.op \in {"seed", "with_seed"} =>
            /\ Len(host'.past_seeds) = Len(host.past_seeds) + 1
            /\ SubSeq(host'.past_seeds, 1, Len(host.past_seeds)) = host.past_seeds]_vars

\* C23: _seed(s) returns s; the seed a _seed() call without a seed chooses
\* right after a _seed call is a function of the seed that call used alone,
\* whatever was seeded or drawn before; and the result of a decorated call
\* given an explicit seed is a function of that seed alone.
C23_SeedingDeterministic ==
    [][/\ (call'.op = "seed" /\ call'.idx # <<>>) => call'.ret = call'.idx[1]
       /\ (call'.op = "seed" /\ call'.idx = <<>> /\ call.op = "seed") =>
            call'.ret = RandInt(Seeded(call.ret))
       /\ (call'.op = "with_seed" /\ call'.idx # <<>>) =>
            call'.ret = <<call'.idx[1],
                          <<RandInt(Seeded(call'.idx[1])), RandInt(Seeded(call'.idx[1]))>> >>]_vars

\* C24: a save to a filepath where something is, with neither the host's
\* do_overwrite nor the argument true, raises FileExistsError and leaves what
\* is there as it is: loading gives what it gave before, the object saved
\* first.
C24_SaveKeepsExistingFile ==
    [][(/\ call'.op = "save"
        /\ host.fs.kind # "none"
        /\ ~(host.has_do_overwrite /\ host.do_overwrite)
        /\ call'.key = "False") =>
            /\ call'.exc = "FileExistsError"
            /\ host'.fs = host.fs
            /\ Load(host') = Load(host)
            /\ (host.fs.kind = "file" /\ Load(host').exc = Ok) =>
                    Load(host').ret = host.fs.obj]_vars

\* C24's case: a host whose `a` differs from the saved object's was refused,
\* and the file still loads.
C24_Witness ==
    /\ call.op = "save" /\ call.exc = "FileExistsError"
    /\ host.fs.kind = "file"
    /\ host.fs.obj.attrs["a"] # host.attrs["a"]
    /\ Load(host) = Outcome(Ok, host.fs.obj)

\* What a save that gets to write raises from its pickler, by the test's
\* examples: an unsupported _PICKLER, a missing dill, and an attribute pickle
\* cannot serialize.
WriteFailure(h) ==
    IF h.pickler \notin {"pickle", "dill"} THEN "NotImplementedError"
    ELSE IF h.pickler = "dill" /\ ~h.dill_imported THEN "ImportError"
    ELSE IF /\ h.pickler = "pickle"
            /\ \E n \in DOMAIN h.attrs \ Range(h.del_before_saving) : h.attrs[n] = "lambda"
         THEN "PicklingError"
    ELSE Ok

C30_DeletedAttrsRestored ==
    [][call'.op = "save" =>
        \A n \in Range(host.del_before_saving) \cap DOMAIN host.attrs :
            n \in DOMAIN host'.attrs /\ host'.attrs[n] = host.attrs[n]]_vars

\* The sum over the samples x of (n x - S)^2, n their number and S their
\* sum: n^2 times the sum of the squared deviations from the mean.
RECURSIVE SumSqDev(_, _, _)
SumSqDev(s, n, S) ==
    IF s = <<>> THEN 0
    ELSE (n * s[1] - S) * (n * s[1] - S) + SumSqDev(Tail(s), n, S)

\* C27: for every key with samples, the mean of the statistics is the sum of
\* the samples over their number n, and a stddev that is given is the
\* population one: its square is the sum of the squared deviations from the
\* mean over n (not n - 1).
C27_PopulationStddev ==
    call.op \in StatsCalls =>
        \A k \in DOMAIN call.ret :
            LET s == SamplesOf(k)
                n == Len(s)
                r == call.ret[k]
            IN n >= 1 =>
                /\ r[2] = n
                /\ r[1] = Frac(SumOf(s), n)
                /\ r[3] # NoFloat =>
                    r[3][1] = Sqrt(Frac(SumSqDev(s, n, SumOf(s)), n * n * n))

\* C27's case: the durations [2, 2, 1] of a key have given count 3, mean 5/3
\* and variance 2/9.
C27_Witness ==
    /\ call.op = "duration_stats"
    /\ \E k \in DOMAIN call.ret :
        /\ SamplesOf(k) = <<2, 2, 1>>
        /\ call.ret[k] = <<Frac(5, 3), 3, <<Sqrt(Frac(2, 9))>> >>

\* The exits of a timing scope.
ScopeExits == {"exit_time_as", "exit_decorated"}

\* C28: on a host timed only through scopes whose work returns, nested under
\* the same key or not, every scope exit completes without raising and adds
\* exactly one completed duration to the scope's key.
C28_NestedScopesComplete ==
    [][call'.op \in ScopeExits =>
        /\ call'.exc = Ok
        /\ Len(TimesFor(timings', call'.key)) = Len(TimesFor(timings, call'.key)) + 1]_vars

\* The calls that normalize a quantity, and the value given in the table's
\* first unit.
NormalizeCalls == {"normalize_unit", "get_pprint_num_unit"}
BaseValue ==
    Times(QuantGiven.val[1],
          ProductBelow(host.table, UnitIndex(host.table, QuantGiven.val[2])))

\* Unit u holds the value whose amount in the first unit is `base`: u is the
\* first unit when base < 1, and otherwise its lower bound does not exceed
\* base and the lower bound of the next unit, if there is one, does (the
\* bounds grow along the table, so u is the largest such unit).
LargestFitting(u, base) ==
    LET i == UnitIndex(host.table, u) IN
    IF Lt(base, Frac(1, 1)) THEN i = 1
    ELSE /\ ~Lt(base, Frac(ProductBelow(host.table, i), 1))
         /\ i < Len(host.table) => Lt(base, Frac(ProductBelow(host.table, i + 1), 1))

\* C26: for a value in a unit of the table, normalize_unit and
\* _get_pprint_num_unit return a pair (v', u') that is the same quantity (v'
\* times the factors below u' is the value times the factors below its unit)
\* in the largest unit of the table whose lower bound does not exceed it, or
\* in the first unit when it is below 1.
C26_NormalizePreservesQuantity ==
    (call.op \in NormalizeCalls /\ QuantGiven.val[2] \in Units(host.table)) =>
        /\ call.exc = Ok
        /\ call.ret # <<>>
        /\ call.ret[2] \in Units(host.table)
        /\ Times(call.ret[1], ProductBelow(host.table, UnitIndex(host.table, call.ret[2])))
                = BaseValue
        /\ LargestFitting(call.ret[2], BaseValue)

\* C29: for a value in a unit of the table, normalize_unit returns a pair
\* whose unit is a unit of the table, whatever the table's last factor and
\* however large the value; it never returns None.
C29_NormalizeReturnsPair ==
    (call.op = "normalize_unit" /\ QuantGiven.val[2] \in Units(host.table)) =>
        /\ call.exc = Ok
        /\ call.ret # <<>>
        /\ call.ret[2] \in Units(host.table)

====
